---- MODULE Spec2Model ----
(***************************************************************************)
(* A model of the task-record engine of the to-do application              *)
(* (src/src/tasks.py) and of the handlers of its Streamlit front end that  *)
(* drive it (src/src/app.py, main).                                        *)
(*                                                                         *)
(* Python values are modelled as follows.  A dict is a function whose      *)
(* domain is the set of keys present, so `"tags" in task` is               *)
(* "tags" \in DOMAIN task.  A list is a sequence.  A date string is a      *)
(* sequence of one-character strings, so that parsing and formatting are   *)
(* computed and not assumed.  What a call hands back is a tagged record:   *)
(* PyNone, PyStr(s), PyInt(n), PyDict(d) or Raise(e) for an exception that *)
(* leaves the function.                                                    *)
(***************************************************************************)
EXTENDS Integers, Sequences, FiniteSets, TLC

VARIABLES
    tasks,      \* app.py: the collection main() loads, mutates and saves
    ever,       \* history: every id that was ever in the collection
    last,       \* history: the handler of main() that ran last
    task,       \* engine: the task dict the engine functions are called on
    coll,       \* engine: the list of task dicts passed to a collection function
    call,       \* history: the engine call made last, its input and its result
    document,   \* store: what the file at DEFAULT_TASKS_FILE holds
    session,    \* store: each running main(): where it is and the list it holds
    pair        \* engine: a task and the next occurrence made from it, with
                \* the fields whose list object the two dicts share

vars == <<tasks, ever, last, task, coll, call, document, session, pair>>

-----------------------------------------------------------------------------
(* Python values *)

PyNone == [t |-> "None"]
PyStr(s) == [t |-> "str", v |-> s]
PyInt(n) == [t |-> "int", v |-> n]
PyBool(b) == [t |-> "bool", v |-> b]
PyDict(d) == [t |-> "dict", v |-> d]
Raise(e) == [t |-> "raise", v |-> e]

\* d[k] = v on a dict
Put(d, k, v) == [x \in DOMAIN d \cup {k} |-> IF x = k THEN v ELSE d[x]]

\* d.get(k, default)
Get(d, k, default) == IF k \in DOMAIN d THEN d[k] ELSE default

SeqMax(s) == CHOOSE m \in {s[i] : i \in DOMAIN s} : \A i \in DOMAIN s : s[i] <= m

-----------------------------------------------------------------------------
(* datetime: strptime("%Y-%m-%d"), date + timedelta, date.replace, strftime *)

Digit == {"0", "1", "2", "3", "4", "5", "6", "7", "8", "9"}
NonZero == Digit \ {"0"}

DigitVal(c) ==
    CASE c = "0" -> 0 [] c = "1" -> 1 [] c = "2" -> 2 [] c = "3" -> 3
      [] c = "4" -> 4 [] c = "5" -> 5 [] c = "6" -> 6 [] c = "7" -> 7
      [] c = "8" -> 8 [] c = "9" -> 9

DigitChar(n) ==
    CASE n = 0 -> "0" [] n = 1 -> "1" [] n = 2 -> "2" [] n = 3 -> "3"
      [] n = 4 -> "4" [] n = 5 -> "5" [] n = 6 -> "6" [] n = 7 -> "7"
      [] n = 8 -> "8" [] n = 9 -> "9"

MINYEAR == 1
MAXYEAR == 9999
MAXORDINAL == 3652059
DI400Y == 146097
DI100Y == 36524
DI4Y == 1461

is_leap(y) == y % 4 = 0 /\ (y % 100 # 0 \/ y % 400 = 0)

days_in_month(y, m) ==
    IF m = 2 THEN (IF is_leap(y) THEN 29 ELSE 28)
    ELSE IF m \in {4, 6, 9, 11} THEN 30 ELSE 31

RECURSIVE days_before_month(_, _)
days_before_month(y, m) ==
    IF m = 1 THEN 0 ELSE days_before_month(y, m - 1) + days_in_month(y, m - 1)

days_before_year(y) ==
    LET p == y - 1 IN p * 365 + (p \div 4) - (p \div 100) + (p \div 400)

\* date.toordinal(): 0001-01-01 is day 1
ymd2ord(d) == days_before_year(d.year) + days_before_month(d.year, d.month) + d.day

\* date.fromordinal(n)
ord2ymd(n) ==
    LET n0 == n - 1
        n400 == n0 \div DI400Y
        r400 == n0 % DI400Y
        n100 == r400 \div DI100Y
        r100 == r400 % DI100Y
        n4 == r100 \div DI4Y
        r4 == r100 % DI4Y
        n1 == r4 \div 365
        r1 == r4 % 365
        year == n400 * 400 + 1 + n100 * 100 + n4 * 4 + n1
    IN  IF n1 = 4 \/ n100 = 4
        THEN [year |-> year - 1, month |-> 12, day |-> 31]
        ELSE LET month == CHOOSE m \in 1..12 :
                     /\ days_before_month(year, m) <= r1
                     /\ r1 < days_before_month(year, m) + days_in_month(year, m)
             IN  [year |-> year, month |-> month,
                  day |-> r1 - days_before_month(year, month) + 1]

\* The length of the text %m takes at position 6: 1[0-2] | 0[1-9] | [1-9]
month_len(s) ==
    IF Len(s) >= 7 /\ ( (s[6] = "1" /\ s[7] \in {"0", "1", "2"})
                     \/ (s[6] = "0" /\ s[7] \in NonZero) )
    THEN 2
    ELSE IF Len(s) >= 6 /\ s[6] \in NonZero THEN 1 ELSE 0

\* The length of the text %d takes at position p:
\* 3[0-1] | [1-2]\d | 0[1-9] | [1-9] | " "[1-9]
day_len(s, p) ==
    IF Len(s) >= p + 1 /\ ( (s[p] = "3" /\ s[p + 1] \in {"0", "1"})
                         \/ (s[p] \in {"1", "2"} /\ s[p + 1] \in Digit)
                         \/ (s[p] = "0" /\ s[p + 1] \in NonZero) )
    THEN 2
    ELSE IF Len(s) >= p /\ s[p] \in NonZero THEN 1
    ELSE IF Len(s) >= p + 1 /\ s[p] = " " /\ s[p + 1] \in NonZero THEN 2
    ELSE 0

Number(s, from, to) ==
    LET RECURSIVE val(_)
        val(i) == IF i < from THEN 0
                  ELSE IF s[i] = " " THEN val(i - 1)
                  ELSE 10 * val(i - 1) + DigitVal(s[i])
    IN  val(to)

\* datetime.strptime(s, "%Y-%m-%d").date(): ok = FALSE stands for the exception exc
strptime(s) ==
    LET bad == [ok |-> FALSE, exc |-> "ValueError"]
    IN  IF ~(Len(s) >= 5 /\ (\A i \in 1..4 : s[i] \in Digit) /\ s[5] = "-")
        THEN bad
        ELSE LET ml == month_len(s)
                 p == 6 + ml + 1
             IN  IF ml = 0 \/ Len(s) < 6 + ml \/ s[6 + ml] # "-"
                 THEN bad
                 ELSE LET dl == day_len(s, p)
                      IN  IF dl = 0 \/ p + dl - 1 # Len(s)
                          THEN bad
                          ELSE LET y == Number(s, 1, 4)
                                   m == Number(s, 6, 6 + ml - 1)
                                   d == Number(s, p, p + dl - 1)
                               IN  IF y < MINYEAR \/ d > days_in_month(y, m)
                                   THEN bad
                                   ELSE [ok |-> TRUE,
                                         date |-> [year |-> y, month |-> m, day |-> d]]

\* date + timedelta(days=n)
date_add(d, n) ==
    LET o == ymd2ord(d) + n
    IN  IF 0 < o /\ o <= MAXORDINAL
        THEN [ok |-> TRUE, date |-> ord2ymd(o)]
        ELSE [ok |-> FALSE, exc |-> "OverflowError"]

\* date.replace(year=y, month=m, day=d)
date_replace(y, m, d) ==
    IF /\ MINYEAR <= y /\ y <= MAXYEAR
       /\ 1 <= m /\ m <= 12
       /\ 1 <= d /\ d <= days_in_month(y, m)
    THEN [ok |-> TRUE, date |-> [year |-> y, month |-> m, day |-> d]]
    ELSE [ok |-> FALSE, exc |-> "ValueError"]

Pad2(n) == <<DigitChar(n \div 10), DigitChar(n % 10)>>

\* date.strftime("%Y-%m-%d"), for the four-digit years the model draws
strftime(d) ==
    <<DigitChar(d.year \div 1000), DigitChar((d.year \div 100) % 10),
      DigitChar((d.year \div 10) % 10), DigitChar(d.year % 10)>>
    \o <<"-">> \o Pad2(d.month) \o <<"-">> \o Pad2(d.day)

-----------------------------------------------------------------------------
(* tasks.py *)

Range(s) == {s[i] : i \in DOMAIN s}

\* Mutant: the id is the number of tasks plus one
generate_unique_id_by_count(ts) == Len(ts) + 1

generate_unique_id(ts) ==
    IF ts = <<>> THEN 1
    ELSE SeqMax([i \in DOMAIN ts |-> ts[i]["id"]]) + 1

\* Mutant: every input tag is appended, present or not
append_new_tags_always(existing, tags) == existing \o tags

\* The loop `for tag in tags: if tag not in task["tags"]: task["tags"].append(tag)`
RECURSIVE append_new_tags(_, _)
append_new_tags(existing, tags) ==
    IF tags = <<>> THEN existing
    ELSE append_new_tags(IF Head(tags) \in Range(existing)
                         THEN existing
                         ELSE Append(existing, Head(tags)),
                         Tail(tags))

\* Mutant: task["tags"].extend(tags)
add_tags_to_task_extend(t, tags) ==
    Put(t, "tags", (IF "tags" \in DOMAIN t THEN t["tags"] ELSE <<>>) \o tags)

\* Mutant: the new tags are put in front of the existing ones
add_tags_to_task_in_front(t, tags) ==
    LET old == IF "tags" \in DOMAIN t THEN t["tags"] ELSE <<>>
        all == append_new_tags(old, tags)
    IN  Put(t, "tags", SubSeq(all, Len(old) + 1, Len(all)) \o old)

add_tags_to_task(t, tags) ==
    LET t1 == IF "tags" \notin DOMAIN t THEN Put(t, "tags", <<>>) ELSE t
    IN  Put(t1, "tags", append_new_tags(t1["tags"], tags))

\* Mutant: the new subtask is numbered by the count of subtasks
add_subtask_by_count(t, subtask_data) ==
    LET old == Get(t, "subtasks", <<>>)
    IN  Put(t, "subtasks",
            Append(old, [id |-> Len(old) + 1,
                         title |-> Get(subtask_data, "title", ""),
                         completed |-> Get(subtask_data, "completed", FALSE)]))

\* Mutant: the new subtask takes the greatest id in use
add_subtask_same_id(t, subtask_data) ==
    LET old == Get(t, "subtasks", <<>>)
    IN  Put(t, "subtasks",
            Append(old, [id |-> IF old = <<>> THEN 1
                                ELSE SeqMax([i \in DOMAIN old |-> Get(old[i], "id", 0)]),
                         title |-> Get(subtask_data, "title", ""),
                         completed |-> Get(subtask_data, "completed", FALSE)]))

add_subtask(t, subtask_data) ==
    LET t1 == IF "subtasks" \notin DOMAIN t THEN Put(t, "subtasks", <<>>) ELSE t
        next_id == IF t1["subtasks"] = <<>> THEN 1
                   ELSE SeqMax([i \in DOMAIN t1["subtasks"] |->
                                    Get(t1["subtasks"][i], "id", 0)]) + 1
        subtask == [id |-> next_id,
                    title |-> Get(subtask_data, "title", ""),
                    completed |-> Get(subtask_data, "completed", FALSE)]
    IN  Put(t1, "subtasks", Append(t1["subtasks"], subtask))

\* Mutant: completing a subtask completes the task as well
complete_subtask_and_task(t, subtask_id) ==
    IF "subtasks" \notin DOMAIN t THEN t
    ELSE Put(Put(t, "completed", TRUE), "subtasks",
             [i \in DOMAIN t["subtasks"] |->
                 IF Get(t["subtasks"][i], "id", 0) = subtask_id
                 THEN Put(t["subtasks"][i], "completed", TRUE)
                 ELSE t["subtasks"][i]])

\* Mutant: the loop has no break, every subtask with the id is completed
complete_subtask_every_match(t, subtask_id) ==
    IF "subtasks" \notin DOMAIN t THEN t
    ELSE Put(t, "subtasks",
             [i \in DOMAIN t["subtasks"] |->
                 IF Get(t["subtasks"][i], "id", 0) = subtask_id
                 THEN Put(t["subtasks"][i], "completed", TRUE)
                 ELSE t["subtasks"][i]])

complete_subtask(t, subtask_id) ==
    IF "subtasks" \notin DOMAIN t THEN t
    ELSE LET hits == {i \in DOMAIN t["subtasks"] :
                         /\ "id" \in DOMAIN t["subtasks"][i]
                         /\ t["subtasks"][i]["id"] = subtask_id}
         IN  IF hits = {} THEN t
             ELSE LET first == CHOOSE i \in hits : \A j \in hits : i <= j
                  IN  Put(t, "subtasks",
                          [t["subtasks"] EXCEPT ![first] = Put(@, "completed", TRUE)])

valid_patterns == {"daily", "weekly", "monthly", "yearly"}

\* Mutant: the pattern is stored without the membership test
set_task_recurrence_unchecked(t, recurrence_pattern) ==
    Put(t, "recurrence", recurrence_pattern)

set_task_recurrence(t, recurrence_pattern) ==
    IF recurrence_pattern \in valid_patterns
    THEN Put(t, "recurrence", recurrence_pattern)
    ELSE t

\* Mutant: a week of six days
next_date_of_week6(recurrence, current_date) ==
    CASE recurrence = "daily" -> date_add(current_date, 1)
      [] recurrence = "weekly" -> date_add(current_date, 6)
      [] recurrence = "monthly" ->
             date_replace(current_date.year + (IF current_date.month = 12 THEN 1 ELSE 0),
                          (current_date.month % 12) + 1,
                          IF current_date.day < 28 THEN current_date.day ELSE 28)
      [] recurrence = "yearly" ->
             date_replace(current_date.year + 1, current_date.month, current_date.day)
      [] OTHER -> [ok |-> FALSE, exc |-> ""]

\* Mutant: the day of the month is not clamped to 28
next_date_of_unclamped(recurrence, current_date) ==
    CASE recurrence = "daily" -> date_add(current_date, 1)
      [] recurrence = "weekly" -> date_add(current_date, 7)
      [] recurrence = "monthly" ->
             date_replace(current_date.year + (IF current_date.month = 12 THEN 1 ELSE 0),
                          (current_date.month % 12) + 1, current_date.day)
      [] recurrence = "yearly" ->
             date_replace(current_date.year + 1, current_date.month, current_date.day)
      [] OTHER -> [ok |-> FALSE, exc |-> ""]

\* Mutant: a year later is 365 days later
next_date_of_365(recurrence, current_date) ==
    CASE recurrence = "daily" -> date_add(current_date, 1)
      [] recurrence = "weekly" -> date_add(current_date, 7)
      [] recurrence = "monthly" ->
             date_replace(current_date.year + (IF current_date.month = 12 THEN 1 ELSE 0),
                          (current_date.month % 12) + 1,
                          IF current_date.day < 28 THEN current_date.day ELSE 28)
      [] recurrence = "yearly" -> date_add(current_date, 365)
      [] OTHER -> [ok |-> FALSE, exc |-> ""]

\* Mutant: monthly clamps the day and stays in the month
next_date_of_same_month(recurrence, current_date) ==
    CASE recurrence = "daily" -> date_add(current_date, 1)
      [] recurrence = "weekly" -> date_add(current_date, 7)
      [] recurrence = "monthly" ->
             date_replace(current_date.year, current_date.month,
                          IF current_date.day < 28 THEN current_date.day ELSE 28)
      [] recurrence = "yearly" ->
             date_replace(current_date.year + 1, current_date.month, current_date.day)
      [] OTHER -> [ok |-> FALSE, exc |-> ""]

\* The date the branch of the recurrence pattern computes from current_date;
\* ok = FALSE with exc = "" stands for the final `else: return None`.
next_date_of(recurrence, current_date) ==
    CASE recurrence = "daily" -> date_add(current_date, 1)
      [] recurrence = "weekly" -> date_add(current_date, 7)
      [] recurrence = "monthly" ->
             LET month == (current_date.month % 12) + 1
                 year == current_date.year + (IF current_date.month = 12 THEN 1 ELSE 0)
                 day == IF current_date.day < 28 THEN current_date.day ELSE 28
             IN  date_replace(year, month, day)
      [] recurrence = "yearly" ->
             date_replace(current_date.year + 1, current_date.month, current_date.day)
      [] OTHER -> [ok |-> FALSE, exc |-> ""]

\* Mutant: `except TypeError` alone
caught_type_error_only == {"TypeError"}

\* What `except (ValueError, TypeError): return None` catches
caught == {"ValueError", "TypeError"}

get_next_occurrence_date(t) ==
    IF "recurrence" \notin DOMAIN t \/ "due_date" \notin DOMAIN t
    THEN PyNone
    ELSE LET parsed == strptime(t["due_date"])
         IN  IF ~parsed.ok
             THEN (IF parsed.exc \in caught THEN PyNone ELSE Raise(parsed.exc))
             ELSE LET next_date == next_date_of(t["recurrence"], parsed.date)
                  IN  IF next_date.ok THEN PyStr(strftime(next_date.date))
                      ELSE IF next_date.exc = "" \/ next_date.exc \in caught THEN PyNone
                      ELSE Raise(next_date.exc)

\* `if not next_date`
Falsy(x) == x = PyNone \/ x = PyStr(<<>>)

\* Mutant: the subtasks keep their completion flags
reset_subtasks_skipped(subtasks) == subtasks

\* The subtask list with every subtask["completed"] = False
reset_subtasks(subtasks) ==
    [i \in DOMAIN subtasks |-> Put(subtasks[i], "completed", FALSE)]

\* ret is what the call returns; task is the caller's dict after the call.
\* task.copy() is a shallow copy: next_task["subtasks"] is the list object of
\* task["subtasks"], holding the same subtask dicts, so the reset of the
\* subtasks' completed flags shows in task as well.
generate_next_occurrence(t) ==
    IF "recurrence" \notin DOMAIN t \/ "due_date" \notin DOMAIN t
    THEN [ret |-> PyNone, task |-> t]
    ELSE LET next_date == get_next_occurrence_date(t)
         IN  IF next_date.t = "raise" THEN [ret |-> next_date, task |-> t]
             ELSE IF Falsy(next_date) THEN [ret |-> PyNone, task |-> t]
             ELSE LET copy == t
                      with_id == Put(copy, "id", generate_unique_id(<<t>>))
                      with_date == Put(with_id, "due_date", next_date.v)
                      with_completed == Put(with_date, "completed", FALSE)
                  IN  IF "subtasks" \in DOMAIN with_completed
                      THEN [ret |-> PyDict(Put(with_completed, "subtasks",
                                               reset_subtasks(t["subtasks"]))),
                            task |-> Put(t, "subtasks", reset_subtasks(t["subtasks"]))]
                      ELSE [ret |-> PyDict(with_completed), task |-> t]

-----------------------------------------------------------------------------
(* tasks.py: the queries over the collection.  A text that is searched is a  *)
(* sequence of one-character strings, like a date text.                      *)

PyList(v) == [t |-> "list", v |-> v]

\* task.get(key): the value under the key, None when the key is absent
dict_get_str(t, key) == IF key \in DOMAIN t THEN PyStr(t[key]) ELSE PyNone

dict_get_bool(t, key) == IF key \in DOMAIN t THEN PyBool(t[key]) ELSE PyNone

\* Mutant: a task without priority passes every priority filter
filter_tasks_by_priority_or_unset(ts, priority) ==
    SelectSeq(ts, LAMBDA t : "priority" \notin DOMAIN t \/ PyStr(t["priority"]) = priority)

\* The value asked for is a text or None
filter_tasks_by_priority(ts, priority) ==
    SelectSeq(ts, LAMBDA t : dict_get_str(t, "priority") = priority)

filter_tasks_by_category(ts, category) ==
    SelectSeq(ts, LAMBDA t : dict_get_str(t, "category") = category)

\* Mutant: task.get("completed", False)
filter_tasks_by_completion_default_false(ts, completed) ==
    SelectSeq(ts, LAMBDA t : PyBool(Get(t, "completed", FALSE)) = completed)

\* The value asked for is a boolean or None
filter_tasks_by_completion(ts, completed) ==
    SelectSeq(ts, LAMBDA t : dict_get_bool(t, "completed") = completed)

\* str.lower() on the letters of the texts searched
lower_char(c) ==
    CASE c = "A" -> "a"
      [] c = "B" -> "b"
      [] OTHER -> c

lower(s) == [i \in DOMAIN s |-> lower_char(s[i])]

\* Python's `q in s` on two texts
str_in(q, s) == \E i \in 0..(Len(s) - Len(q)) : SubSeq(s, i + 1, i + Len(q)) = q

\* Mutant: the query is not lowered
search_tasks_query_as_typed(ts, query) ==
    SelectSeq(ts, LAMBDA t : \/ str_in(query, lower(Get(t, "title", <<>>)))
                             \/ str_in(query, lower(Get(t, "description", <<>>))))

search_tasks(ts, query) ==
    LET q == lower(query)
    IN  SelectSeq(ts, LAMBDA t : \/ str_in(q, lower(Get(t, "title", <<>>)))
                                 \/ str_in(q, lower(Get(t, "description", <<>>))))

\* date.__lt__: the (year, month, day) triples compared in that order
date_lt(a, b) ==
    \/ a.year < b.year
    \/ a.year = b.year /\ a.month < b.month
    \/ a.year = b.year /\ a.month = b.month /\ a.day < b.day

overdue_caught == {"ValueError", "TypeError"}

\* Mutant: due_date <= today
get_overdue_tasks_until_today(tasks_list, today) ==
    PyList(SelectSeq(tasks_list,
                     LAMBDA t : /\ ~Get(t, "completed", FALSE)
                                /\ "due_date" \in DOMAIN t
                                /\ strptime(t["due_date"]).ok
                                /\ ~date_lt(today, strptime(t["due_date"]).date)))

\* today is datetime.now().date(), read once at the start of the call
get_overdue_tasks(tasks_list, today) ==
    LET reached(t) == ~Get(t, "completed", FALSE) /\ "due_date" \in DOMAIN t
        escapes(t) == /\ reached(t)
                      /\ ~strptime(t["due_date"]).ok
                      /\ strptime(t["due_date"]).exc \notin overdue_caught
    IN  IF \E i \in DOMAIN tasks_list : escapes(tasks_list[i])
        THEN Raise(strptime(tasks_list[CHOOSE i \in DOMAIN tasks_list :
                                /\ escapes(tasks_list[i])
                                /\ \A j \in 1..(i - 1) : ~escapes(tasks_list[j])]["due_date"]).exc)
        ELSE PyList(SelectSeq(tasks_list,
                              LAMBDA t : /\ reached(t)
                                         /\ strptime(t["due_date"]).ok
                                         /\ date_lt(strptime(t["due_date"]).date, today)))

\* Mutant: only the first tag of a task is looked at
get_tasks_by_tag_first_only(ts, tag) ==
    SelectSeq(ts, LAMBDA t : /\ "tags" \in DOMAIN t
                             /\ t["tags"] # <<>>
                             /\ t["tags"][1] = tag)

get_tasks_by_tag(ts, tag) ==
    SelectSeq(ts, LAMBDA t : "tags" \in DOMAIN t /\ tag \in Range(t["tags"]))

-----------------------------------------------------------------------------
(* tasks.py: the store.  A document is missing, or holds bytes that are not  *)
(* text in the file's encoding, or text that is not JSON, or a JSON text,    *)
(* kept as the value it denotes.                                             *)

Missing == [kind |-> "missing"]
Undecodable == [kind |-> "bytes"]
NotJson == [kind |-> "text"]
Json(value) == [kind |-> "json", value |-> value]

JNull == [j |-> "null"]
JBool(b) == [j |-> IF b THEN "true" ELSE "false"]
JNumber(n) == [j |-> "number", n |-> n]
JString(s) == [j |-> "string", s |-> s]
JArray(items) == [j |-> "array", items |-> items]
JObject(members) == [j |-> "object", members |-> members]

\* json.dump of a subtask dict
subtask_to_json(st) ==
    JObject([k \in DOMAIN st |->
                CASE k = "id" -> JNumber(st[k])
                  [] k = "completed" -> JBool(st[k])
                  [] OTHER -> JString(st[k])])

\* json.dump of a task dict: int, bool, str and list values by their type
task_to_json(t) ==
    JObject([k \in DOMAIN t |->
                CASE k = "id" -> JNumber(t[k])
                  [] k = "completed" -> JBool(t[k])
                  [] k = "tags" -> JArray([i \in DOMAIN t[k] |-> JString(t[k][i])])
                  [] k = "subtasks" -> JArray([i \in DOMAIN t[k] |-> subtask_to_json(t[k][i])])
                  [] OTHER -> JString(t[k])])

json_dump(ts) == JArray([i \in DOMAIN ts |-> task_to_json(ts[i])])

\* json.load: the Python value a JSON value denotes, inside a list or dict
RECURSIVE json_value(_)
json_value(j) ==
    CASE j.j = "null" -> PyNone
      [] j.j = "true" -> TRUE
      [] j.j = "false" -> FALSE
      [] j.j = "number" -> j.n
      [] j.j = "string" -> j.s
      [] j.j = "array" -> [i \in DOMAIN j.items |-> json_value(j.items[i])]
      [] j.j = "object" -> [k \in DOMAIN j.members |-> json_value(j.members[k])]

\* json.load: what comes back for a whole document
json_load(j) ==
    CASE j.j = "null" -> PyNone
      [] j.j \in {"true", "false"} -> PyBool(json_value(j))
      [] j.j = "number" -> PyInt(j.n)
      [] j.j = "string" -> PyStr(j.s)
      [] j.j = "array" -> PyList(json_value(j))
      [] j.j = "object" -> PyDict(json_value(j))

\* open(file_path, "r") and json.load(f): the value, or the exception
read_json(doc) ==
    CASE doc.kind = "missing" -> Raise("FileNotFoundError")
      [] doc.kind = "bytes" -> Raise("UnicodeDecodeError")
      [] doc.kind = "text" -> Raise("JSONDecodeError")
      [] doc.kind = "json" -> json_load(doc.value)

\* Mutant: a document that is not JSON is not caught
load_caught_missing_only == {"FileNotFoundError"}

load_caught == {"FileNotFoundError", "JSONDecodeError"}

load_tasks(doc) ==
    LET r == read_json(doc)
    IN  IF r.t = "raise" /\ r.v \in load_caught THEN PyList(<<>>) ELSE r

\* Mutant: the file is opened with "a", the text is written behind the old one
save_tasks_appending(ts, doc) ==
    IF doc.kind = "missing" THEN Json(json_dump(ts)) ELSE
    IF doc.kind = "bytes" THEN Undecodable ELSE NotJson

\* Mutant: the tasks the document holds and the list lacks are written too
save_tasks_merging(ts, doc) ==
    IF /\ doc.kind = "json"
       /\ doc.value.j = "array"
       /\ \A i \in DOMAIN doc.value.items : doc.value.items[i].j = "object"
    THEN Json(json_dump(ts \o SelectSeq(json_value(doc.value),
                                        LAMBDA t : \A i \in DOMAIN ts : ts[i] # t)))
    ELSE Json(json_dump(ts))

\* open(file_path, "w") empties the document, json.dump writes the list
save_tasks(ts, doc) == Json(json_dump(ts))

-----------------------------------------------------------------------------
(* The inputs the engine specifications draw *)

\* 2000: leap by the 400 rule; 2024: leap; 2025: common; 2100: common by the
\* 100 rule; 9999: datetime.MAXYEAR
Years == {2000, 2024, 2025, 2100, 9999}

\* Every YYYY-MM-DD text of those years, days that no month has included
PaddedDates == {strftime([year |-> y, month |-> m, day |-> d]) :
                    y \in Years, m \in 1..12, d \in 1..31}

OddDates ==
    { <<>>,
      <<"2", "0", "2", "4", "-", "1", "-", "5">>,
      <<"2", "0", "2", "4", "-", "1", "0", "-", "3">>,
      <<"2", "0", "2", "4", "-", "0", "2", "-", " ", "9">>,
      <<"2", "0", "2", "4", "-", "1", "3", "-", "0", "1">>,
      <<"2", "0", "2", "4", "-", "0", "0", "-", "1", "0">>,
      <<"2", "0", "2", "4", "-", "0", "1", "-", "0", "0">>,
      <<"2", "0", "2", "4", "-", "0", "1", "-", "0", "1", "1">>,
      <<"2", "0", "2", "4", "-", "0", "1", "-", "0", "5", " ">>,
      <<"2", "0", "2", "4", "/", "0", "1", "/", "0", "5">>,
      <<"0", "1", "-", "0", "5", "-", "2", "0", "2", "4">>,
      <<"0", "0", "0", "0", "-", "0", "1", "-", "0", "1">>,
      <<"2", "0", "2", "4", "0", "1", "0", "5">>,
      <<"s", "o", "o", "n">> }

DueDates == PaddedDates \cup OddDates

Recurrences == valid_patterns \cup {"hourly"}

PlainTask ==
    [id |-> 1, title |-> "Test Task", description |-> "", priority |-> "High",
     category |-> "Work", completed |-> FALSE, created_at |-> "2025-04-20 10:00:00"]

BusyTask ==
    [id |-> 7, title |-> "Report", description |-> "Weekly report",
     priority |-> "Low", category |-> "School", completed |-> TRUE,
     created_at |-> "2025-04-21 09:30:00", tags |-> <<"urgent", "work">>,
     subtasks |-> << [id |-> 1, title |-> "draft", completed |-> TRUE],
                     [id |-> 2, title |-> "send", completed |-> FALSE] >>]

BaseTasks == {PlainTask, BusyTask}

WithDue == BaseTasks \cup {Put(b, "due_date", d) : b \in BaseTasks, d \in DueDates}

RecurTasks == WithDue \cup {Put(b, "recurrence", r) : b \in WithDue, r \in Recurrences}

NoCall == [fn |-> "none"]
Idle == [op |-> "none"]
NoSessions == <<>>
NoPair == [shared |-> {}]

-----------------------------------------------------------------------------
(* SpecRecur: the recurrence functions called on one task *)

InitRecur ==
    /\ task \in RecurTasks
    /\ call = NoCall
    /\ coll = <<>>
    /\ tasks = <<>>
    /\ ever = {}
    /\ last = Idle
    /\ pair = NoPair
    /\ document = Missing
    /\ session = NoSessions

CallGetNextOccurrenceDate ==
    /\ call' = [fn |-> "get_next_occurrence_date", arg |-> task,
                ret |-> get_next_occurrence_date(task)]
    /\ UNCHANGED <<task, coll, tasks, ever, last, document, session, pair>>

CallGenerateNextOccurrence ==
    LET r == generate_next_occurrence(task)
    IN  /\ call' = [fn |-> "generate_next_occurrence", arg |-> task, ret |-> r.ret]
        /\ task' = r.task
        /\ UNCHANGED <<coll, tasks, ever, last, document, session, pair>>

NextRecur == CallGetNextOccurrenceDate \/ CallGenerateNextOccurrence

SpecRecur == InitRecur /\ [][NextRecur]_vars

-----------------------------------------------------------------------------
(* What the claims about the recurrence functions speak of *)

Called(fn) == call.fn = fn

Parseable(t) == "due_date" \in DOMAIN t /\ strptime(t["due_date"]).ok

Recurs(t, patterns) == "recurrence" \in DOMAIN t /\ t["recurrence"] \in patterns

DueOf(t) == strptime(t["due_date"]).date

\* x is the ten-character text that reads as the date d
IsDate(x, d) ==
    /\ x.t = "str"
    /\ Len(x.v) = 10
    /\ strptime(x.v).ok
    /\ strptime(x.v).date = d

\* The calendar: the day after d, and the day n days after d
Tomorrow(d) ==
    IF d.day < days_in_month(d.year, d.month)
    THEN [year |-> d.year, month |-> d.month, day |-> d.day + 1]
    ELSE IF d.month < 12
         THEN [year |-> d.year, month |-> d.month + 1, day |-> 1]
         ELSE [year |-> d.year + 1, month |-> 1, day |-> 1]

RECURSIVE DaysLater(_, _)
DaysLater(d, n) == IF n = 0 THEN d ELSE DaysLater(Tomorrow(d), n - 1)

StepDays(t) == IF t["recurrence"] = "daily" THEN 1 ELSE 7

NextMonth(d) ==
    [year |-> IF d.month = 12 THEN d.year + 1 ELSE d.year,
     month |-> IF d.month = 12 THEN 1 ELSE d.month + 1,
     day |-> IF d.day < 28 THEN d.day ELSE 28]

NextYear(d) == [year |-> d.year + 1, month |-> d.month, day |-> d.day]

CopiedFields == {"title", "description", "priority", "category", "tags",
                 "recurrence", "created_at"}

\* x is the next occurrence of the task t, as C5 describes it
IsNextOccurrence(x, t) ==
    /\ x.t = "dict"
    /\ DOMAIN x.v = DOMAIN t
    /\ x.v["id"] # t["id"]
    /\ PyStr(x.v["due_date"]) = get_next_occurrence_date(t)
    /\ x.v["completed"] = FALSE
    /\ "subtasks" \in DOMAIN t =>
           /\ Len(x.v["subtasks"]) = Len(t["subtasks"])
           /\ \A i \in DOMAIN t["subtasks"] :
                  /\ x.v["subtasks"][i]["completed"] = FALSE
                  /\ x.v["subtasks"][i]["id"] = t["subtasks"][i]["id"]
                  /\ x.v["subtasks"][i]["title"] = t["subtasks"][i]["title"]
    /\ \A k \in CopiedFields \cap DOMAIN t : x.v[k] = t[k]

\* C5 as stated: for every task with a recurrence pattern and a parseable
\* due_date, generate_next_occurrence returns the next occurrence: a task with
\* another id, the due_date of get_next_occurrence_date, completed = false,
\* every subtask completed = false, and the other fields of the input.
C5_EveryRecurringTask ==
    (Called("generate_next_occurrence") /\ Recurs(call.arg, valid_patterns)
        /\ Parseable(call.arg))
    => IsNextOccurrence(call.ret, call.arg)

\* C5 amended: generate_next_occurrence returns that next occurrence whenever
\* get_next_occurrence_date returns a date for the task; when it returns none
\* (no such date exists) or raises, generate_next_occurrence does the same.
C5_WhenNextDateExists ==
    (Called("generate_next_occurrence") /\ Recurs(call.arg, valid_patterns)
        /\ Parseable(call.arg))
    => IF get_next_occurrence_date(call.arg).t = "str"
       THEN IsNextOccurrence(call.ret, call.arg)
       ELSE call.ret = get_next_occurrence_date(call.arg)

C5_Witness ==
    /\ Called("generate_next_occurrence")
    /\ Recurs(call.arg, {"weekly"})
    /\ Parseable(call.arg)
    /\ call.arg["completed"] = TRUE
    /\ "subtasks" \in DOMAIN call.arg
    /\ \E i \in DOMAIN call.arg["subtasks"] : call.arg["subtasks"][i]["completed"]
    /\ call.ret.t = "dict"
    /\ call.ret.v["id"] = call.arg["id"] + 1

\* C6: get_next_occurrence_date and generate_next_occurrence return none, and
\* raise nothing, when the task has no recurrence, no due_date, a due_date
\* that does not parse, or a recurrence outside daily/weekly/monthly/yearly.
C6_NoneWhenNotApplicable ==
    ( /\ Called("get_next_occurrence_date") \/ Called("generate_next_occurrence")
      /\ \/ "recurrence" \notin DOMAIN call.arg
         \/ "due_date" \notin DOMAIN call.arg
         \/ ~Parseable(call.arg)
         \/ ~Recurs(call.arg, valid_patterns) )
    => call.ret = PyNone

C6_Witness ==
    /\ Called("generate_next_occurrence")
    /\ Recurs(call.arg, {"monthly"})
    /\ "due_date" \in DOMAIN call.arg
    /\ ~Parseable(call.arg)
    /\ Len(call.arg["due_date"]) = 10
    /\ call.ret = PyNone

\* C7 as stated: for every parseable due_date, get_next_occurrence_date returns
\* the date 1 calendar day later (daily) or 7 calendar days later (weekly).
C7_EveryDate ==
    (Called("get_next_occurrence_date") /\ Recurs(call.arg, {"daily", "weekly"})
        /\ Parseable(call.arg))
    => IsDate(call.ret, DaysLater(DueOf(call.arg), StepDays(call.arg)))

\* C7 amended: it does so for every parseable due_date whose later date is no
\* later than 9999-12-31; past that date the call raises OverflowError.
C7_UpToLastDate ==
    (Called("get_next_occurrence_date") /\ Recurs(call.arg, {"daily", "weekly"})
        /\ Parseable(call.arg))
    => LET later == DaysLater(DueOf(call.arg), StepDays(call.arg))
       IN  IF later.year <= MAXYEAR
           THEN IsDate(call.ret, later)
           ELSE call.ret = Raise("OverflowError")

C7_Witness ==
    /\ Called("get_next_occurrence_date")
    /\ Recurs(call.arg, {"weekly"})
    /\ Parseable(call.arg)
    /\ DueOf(call.arg) = [year |-> 2024, month |-> 2, day |-> 23]
    /\ IsDate(call.ret, [year |-> 2024, month |-> 3, day |-> 1])

\* C8 as stated: for monthly recurrence and every parseable due_date,
\* get_next_occurrence_date returns the date in the next calendar month
\* (December rolls to January of the next year) with day min(day, 28).
C8_EveryDate ==
    (Called("get_next_occurrence_date") /\ Recurs(call.arg, {"monthly"})
        /\ Parseable(call.arg))
    => IsDate(call.ret, NextMonth(DueOf(call.arg)))

\* C8 amended: it does so for every parseable due_date except those of
\* December 9999, whose next month lies past the last year; there it
\* returns none.
C8_UpToLastYear ==
    (Called("get_next_occurrence_date") /\ Recurs(call.arg, {"monthly"})
        /\ Parseable(call.arg))
    => IF NextMonth(DueOf(call.arg)).year <= MAXYEAR
       THEN /\ IsDate(call.ret, NextMonth(DueOf(call.arg)))
            /\ strptime(call.ret.v).date.day <= 28
       ELSE call.ret = PyNone

C8_Witness ==
    /\ Called("get_next_occurrence_date")
    /\ Recurs(call.arg, {"monthly"})
    /\ Parseable(call.arg)
    /\ DueOf(call.arg) = [year |-> 2024, month |-> 12, day |-> 31]
    /\ IsDate(call.ret, [year |-> 2025, month |-> 1, day |-> 28])

\* C9 as stated: for yearly recurrence and every due_date that parses,
\* get_next_occurrence_date returns the same month and day a year later.
C9_EveryDate ==
    (Called("get_next_occurrence_date") /\ Recurs(call.arg, {"yearly"})
        /\ Parseable(call.arg))
    => /\ call.ret.t = "str"
       /\ Len(call.ret.v) = 10
       /\ Number(call.ret.v, 1, 4) = DueOf(call.arg).year + 1
       /\ Number(call.ret.v, 6, 7) = DueOf(call.arg).month
       /\ Number(call.ret.v, 9, 10) = DueOf(call.arg).day

\* C9 amended: it does so whenever the next year has that day and is no later
\* than 9999; for 29 February and for the dates of 9999 it returns none.
C9_WhenTheDayExists ==
    (Called("get_next_occurrence_date") /\ Recurs(call.arg, {"yearly"})
        /\ Parseable(call.arg))
    => LET later == NextYear(DueOf(call.arg))
       IN  IF later.year <= MAXYEAR /\ later.day <= days_in_month(later.year, later.month)
           THEN IsDate(call.ret, later)
           ELSE call.ret = PyNone

C9_Witness ==
    /\ Called("get_next_occurrence_date")
    /\ Recurs(call.arg, {"yearly"})
    /\ Parseable(call.arg)
    /\ DueOf(call.arg) = [year |-> 2024, month |-> 2, day |-> 28]
    /\ IsDate(call.ret, [year |-> 2025, month |-> 2, day |-> 28])

\* C27: generate_next_occurrence leaves the task it is given unchanged: after
\* the call the task has the id, due_date and completed it had before, and
\* each of its subtasks the completed flag it had before.
C27_InputTaskUnchanged ==
    Called("generate_next_occurrence") =>
        /\ DOMAIN task = DOMAIN call.arg
        /\ task["id"] = call.arg["id"]
        /\ task["completed"] = call.arg["completed"]
        /\ "due_date" \in DOMAIN task => task["due_date"] = call.arg["due_date"]
        /\ "subtasks" \in DOMAIN task =>
               /\ Len(task["subtasks"]) = Len(call.arg["subtasks"])
               /\ \A i \in DOMAIN task["subtasks"] :
                      task["subtasks"][i]["completed"] = call.arg["subtasks"][i]["completed"]

\* C30: for each of the four patterns and every due_date for which
\* get_next_occurrence_date returns a date, that date is strictly later than
\* the due_date; generate_next_occurrence keeps the recurrence and gives the
\* next occurrence that later date, so the due dates along a chain of
\* occurrences strictly increase.
C30_NextDateIsLater ==
    /\ (Called("get_next_occurrence_date") /\ call.ret.t = "str") =>
           /\ strptime(call.ret.v).ok
           /\ ymd2ord(strptime(call.ret.v).date) > ymd2ord(DueOf(call.arg))
    /\ (Called("generate_next_occurrence") /\ call.ret.t = "dict") =>
           /\ call.ret.v["recurrence"] = call.arg["recurrence"]
           /\ strptime(call.ret.v["due_date"]).ok
           /\ ymd2ord(DueOf(call.ret.v)) > ymd2ord(DueOf(call.arg))

C30_Witness ==
    /\ Called("generate_next_occurrence")
    /\ Recurs(call.arg, {"monthly"})
    /\ Parseable(call.arg)
    /\ DueOf(call.arg) = [year |-> 2024, month |-> 12, day |-> 31]
    /\ call.ret.t = "dict"
    /\ DueOf(call.ret.v) = [year |-> 2025, month |-> 1, day |-> 28]

-----------------------------------------------------------------------------
(* SpecColl: the functions that take the whole collection *)

MaxCollLen == 3
MaxCollId == 4

RECURSIVE SeqsUpTo(_, _)
SeqsUpTo(S, n) ==
    IF n = 0 THEN {<<>>}
    ELSE LET shorter == SeqsUpTo(S, n - 1)
         IN  shorter \cup {Append(q, x) : q \in shorter, x \in S}

CollTasks == {[id |-> i, title |-> "Task", completed |-> FALSE] : i \in 1..MaxCollId}

InitColl ==
    /\ coll \in SeqsUpTo(CollTasks, MaxCollLen)
    /\ call = NoCall
    /\ task = PlainTask
    /\ tasks = <<>>
    /\ ever = {}
    /\ last = Idle
    /\ pair = NoPair
    /\ document = Missing
    /\ session = NoSessions

CallGenerateUniqueId ==
    /\ call' = [fn |-> "generate_unique_id", arg |-> coll,
                ret |-> PyInt(generate_unique_id(coll))]
    /\ UNCHANGED <<coll, task, tasks, ever, last, document, session, pair>>

NextColl == CallGenerateUniqueId

SpecColl == InitColl /\ [][NextColl]_vars

\* C2: generate_unique_id returns 1 for an empty collection and, for a
\* non-empty one, the greatest id in it plus 1: one more than the id of some
\* task and greater than the id of every task.
C2_NextIdIsMaxPlusOne ==
    Called("generate_unique_id") =>
        /\ call.ret.t = "int"
        /\ call.arg = <<>> => call.ret.v = 1
        /\ call.arg # <<>> =>
               /\ \E i \in DOMAIN call.arg : call.ret.v = call.arg[i]["id"] + 1
               /\ \A i \in DOMAIN call.arg : call.ret.v > call.arg[i]["id"]

C2_Witness ==
    /\ Called("generate_unique_id")
    /\ Len(call.arg) = 3
    /\ call.arg[1]["id"] = 2 /\ call.arg[2]["id"] = 4 /\ call.arg[3]["id"] = 2
    /\ call.ret = PyInt(5)

-----------------------------------------------------------------------------
(* SpecTags: add_tags_to_task called again and again on one task *)

MaxTagInput == 3

TagNames == {"urgent", "work", "home"}

TagInputs == SeqsUpTo(TagNames, MaxTagInput)

InitTags ==
    /\ task \in {PlainTask, Put(PlainTask, "recurrence", "daily")}
    /\ call = NoCall
    /\ coll = <<>>
    /\ tasks = <<>>
    /\ ever = {}
    /\ last = Idle
    /\ pair = NoPair
    /\ document = Missing
    /\ session = NoSessions

CallAddTags ==
    \E tags \in TagInputs :
        /\ task' = add_tags_to_task(task, tags)
        /\ call' = [fn |-> "add_tags_to_task", arg |-> task, tags |-> tags,
                    ret |-> PyDict(add_tags_to_task(task, tags))]
        /\ UNCHANGED <<coll, tasks, ever, last, document, session, pair>>

NextTags == CallAddTags

SpecTags == InitTags /\ [][NextTags]_vars

NoDuplicates(s) == \A i, j \in DOMAIN s : i # j => s[i] # s[j]

\* C10: after any sequence of add_tags_to_task calls on a task that starts
\* without tags, the task's tags hold no value twice, and after each call
\* every tag of that call's input list is among the tags, however often the
\* input repeats it.
C10_TagsUniqueAndAdded ==
    /\ "tags" \in DOMAIN task => NoDuplicates(task["tags"])
    /\ Called("add_tags_to_task") =>
           /\ "tags" \in DOMAIN task
           /\ call.ret = PyDict(task)
           /\ \A i \in DOMAIN call.tags : call.tags[i] \in Range(task["tags"])

C10_Witness ==
    /\ Called("add_tags_to_task")
    /\ "tags" \in DOMAIN call.arg
    /\ call.arg["tags"] = <<"work">>
    /\ call.tags = <<"home", "work", "home">>
    /\ task["tags"] = <<"work", "home">>

\* C11: add_tags_to_task is idempotent: a call with the same tag list as the
\* call before it leaves the task, its tags and their order included, exactly
\* as the first call left it.
C11_SecondCallChangesNothing ==
    [][(Called("add_tags_to_task") /\ call'.tags = call.tags) => task' = task]_vars

C11_Witness ==
    /\ Called("add_tags_to_task")
    /\ call.tags = <<"home", "work", "home">>
    /\ "tags" \in DOMAIN call.arg
    /\ call.arg["tags"] = <<"urgent", "home", "work">>
    /\ task = call.arg

\* The place where tag x first stands in the list s
FirstPlace(s, x) == CHOOSE i \in DOMAIN s : s[i] = x /\ \A j \in 1..(i - 1) : s[j] # x

\* C12: add_tags_to_task keeps the existing tags in front, in their order,
\* and puts behind them the input tags that were not present, each once, in
\* the order of their first appearance in the input; on a task without tags
\* and an input without repeats the tags become the input list.
C12_OldTagsThenNewInInputOrder ==
    Called("add_tags_to_task") =>
        LET old == Get(call.arg, "tags", <<>>)
            all == call.ret.v["tags"]
            added == SubSeq(all, Len(old) + 1, Len(all))
        IN  /\ Len(all) >= Len(old)
            /\ SubSeq(all, 1, Len(old)) = old
            /\ NoDuplicates(added)
            /\ Range(added) = Range(call.tags) \ Range(old)
            /\ \A p, q \in DOMAIN added :
                   p < q => FirstPlace(call.tags, added[p]) < FirstPlace(call.tags, added[q])
            /\ ("tags" \notin DOMAIN call.arg /\ NoDuplicates(call.tags)) => all = call.tags
            /\ \A x \in DOMAIN call.arg \ {"tags"} : call.ret.v[x] = call.arg[x]
            /\ DOMAIN call.ret.v = DOMAIN call.arg \cup {"tags"}

C12_Witness ==
    /\ Called("add_tags_to_task")
    /\ "tags" \in DOMAIN call.arg
    /\ call.arg["tags"] = <<"work", "urgent">>
    /\ call.tags = <<"home", "work", "home">>
    /\ call.ret.v["tags"] = <<"work", "urgent", "home">>

-----------------------------------------------------------------------------
(* SpecSubtasks: add_subtask, complete_subtask and generate_next_occurrence  *)
(* called again and again on a task that starts without subtasks.            *)
(* SpecSubtaskCalls: the same calls on any stored task.                      *)

MaxSubtasks == 3

\* What a caller can pass as subtask_data: a dict with or without each key
SubtaskData ==
    {<<>>, [title |-> "step"], [title |-> "step", completed |-> FALSE],
     [title |-> "step", completed |-> TRUE], [completed |-> TRUE]}

SubtaskIds == 0..(MaxSubtasks + 1)

\* Monthly from October 9999: two next occurrences, then none
LateTask ==
    [id |-> 1, title |-> "Test Task", description |-> "", priority |-> "High",
     category |-> "Work", completed |-> FALSE, created_at |-> "2025-04-20 10:00:00",
     due_date |-> <<"9", "9", "9", "9", "-", "1", "0", "-", "1", "5">>,
     recurrence |-> "monthly"]

\* Subtask lists a stored task can hold: ids out of order, an id twice, no id
StoredSubtasks ==
    {<< [id |-> 3, title |-> "c", completed |-> FALSE],
        [id |-> 1, title |-> "a", completed |-> TRUE] >>,
     << [id |-> 2, title |-> "b", completed |-> FALSE],
        [id |-> 2, title |-> "b", completed |-> FALSE] >>,
     << [title |-> "x", completed |-> FALSE] >>,
     <<>>}

InitSubtasks ==
    /\ task = LateTask
    /\ call = NoCall
    /\ coll = <<>>
    /\ tasks = <<>>
    /\ ever = {}
    /\ last = Idle
    /\ pair = NoPair
    /\ document = Missing
    /\ session = NoSessions

InitSubtaskCalls ==
    /\ task \in {LateTask} \cup {Put(LateTask, "subtasks", sts) : sts \in StoredSubtasks}
    /\ call = NoCall
    /\ coll = <<>>
    /\ tasks = <<>>
    /\ ever = {}
    /\ last = Idle
    /\ pair = NoPair
    /\ document = Missing
    /\ session = NoSessions

CallAddSubtask ==
    \E subtask_data \in SubtaskData :
        /\ Len(Get(task, "subtasks", <<>>)) < MaxSubtasks
        /\ task' = add_subtask(task, subtask_data)
        /\ call' = [fn |-> "add_subtask", arg |-> task, subtask_data |-> subtask_data,
                    ret |-> PyDict(add_subtask(task, subtask_data))]
        /\ UNCHANGED <<coll, tasks, ever, last, document, session, pair>>

CallCompleteSubtask ==
    \E subtask_id \in SubtaskIds :
        /\ task' = complete_subtask(task, subtask_id)
        /\ call' = [fn |-> "complete_subtask", arg |-> task, subtask_id |-> subtask_id,
                    ret |-> PyDict(complete_subtask(task, subtask_id))]
        /\ UNCHANGED <<coll, tasks, ever, last, document, session, pair>>

\* The caller goes on with the task it passed or with the one it got back
CallNextOccurrence ==
    LET r == generate_next_occurrence(task)
    IN  /\ task' \in {r.task} \cup (IF r.ret.t = "dict" THEN {r.ret.v} ELSE {})
        /\ call' = [fn |-> "generate_next_occurrence", arg |-> task, ret |-> r.ret]
        /\ UNCHANGED <<coll, tasks, ever, last, document, session, pair>>

NextSubtasks == CallAddSubtask \/ CallCompleteSubtask \/ CallNextOccurrence

SpecSubtasks == InitSubtasks /\ [][NextSubtasks]_vars

SpecSubtaskCalls == InitSubtaskCalls /\ [][NextSubtasks]_vars

SubtasksOf(t) == Get(t, "subtasks", <<>>)

\* The id the new subtask must carry: 1 on an empty list, else the greatest
\* id in the list (an absent id counting as 0) plus 1
IsNextSubtaskId(n, old) ==
    /\ old = <<>> => n = 1
    /\ old # <<>> =>
           /\ \E i \in DOMAIN old : n = Get(old[i], "id", 0) + 1
           /\ \A i \in DOMAIN old : n > Get(old[i], "id", 0)

\* add_subtask put one subtask behind the unchanged old ones and touched
\* nothing else of the task
AppendedOne ==
    LET old == SubtasksOf(call.arg)
        new == call.ret.v["subtasks"]
    IN  /\ call.ret.t = "dict"
        /\ call.ret = PyDict(task)
        /\ DOMAIN call.ret.v = DOMAIN call.arg \cup {"subtasks"}
        /\ \A x \in DOMAIN call.arg \ {"subtasks"} : call.ret.v[x] = call.arg[x]
        /\ Len(new) = Len(old) + 1
        /\ SubSeq(new, 1, Len(old)) = old
        /\ IsNextSubtaskId(new[Len(new)]["id"], old)

\* C13 as stated: for every task and every subtask_data, add_subtask appends
\* exactly one subtask at the end of the task's subtasks, with id = greatest
\* existing subtask id (0 if none) + 1 and completed = false, and leaves the
\* existing subtasks as they were.
C13_NewSubtaskNeverCompleted ==
    Called("add_subtask") =>
        /\ AppendedOne
        /\ call.ret.v["subtasks"][Len(call.ret.v["subtasks"])]["completed"] = FALSE

\* C13 amended: ... and completed = the completed value of subtask_data,
\* false when subtask_data has none; the title likewise comes from
\* subtask_data, "" when it has none.
C13_NewSubtaskAsGiven ==
    Called("add_subtask") =>
        /\ AppendedOne
        /\ call.ret.v["subtasks"][Len(call.ret.v["subtasks"])]["completed"]
               = Get(call.subtask_data, "completed", FALSE)
        /\ call.ret.v["subtasks"][Len(call.ret.v["subtasks"])]["title"]
               = Get(call.subtask_data, "title", "")

C13_Witness ==
    /\ Called("add_subtask")
    /\ "subtasks" \in DOMAIN call.arg
    /\ Len(call.arg["subtasks"]) = 2
    /\ call.arg["subtasks"][1]["id"] = 3
    /\ call.arg["subtasks"][2]["id"] = 1
    /\ call.subtask_data = [title |-> "step"]
    /\ task["subtasks"][3] = [id |-> 4, title |-> "step", completed |-> FALSE]

UniqueSubtaskIds(t) ==
    \A i, j \in DOMAIN SubtasksOf(t) :
        i # j => SubtasksOf(t)[i]["id"] # SubtasksOf(t)[j]["id"]

\* C14: after any sequence of add_subtask and complete_subtask calls on a
\* task that starts without subtasks, and in every task generate_next_occurrence
\* makes from it, no two subtasks of the task have the same id.
C14_UniqueSubtaskIds ==
    /\ UniqueSubtaskIds(task)
    /\ call.fn \in {"add_subtask", "complete_subtask", "generate_next_occurrence"} =>
           (call.ret.t = "dict" => UniqueSubtaskIds(call.ret.v))

C14_Witness ==
    /\ Called("generate_next_occurrence")
    /\ call.ret.t = "dict"
    /\ task = call.ret.v
    /\ Len(SubtasksOf(task)) = 3
    /\ \A i \in 1..3 : task["subtasks"][i]["id"] = i
    /\ Len(SubtasksOf(call.arg)) = 3
    /\ call.arg["subtasks"][2]["completed"] = TRUE

\* The subtasks of the argument that carry the id asked for
Matches == {i \in DOMAIN SubtasksOf(call.arg) :
               /\ "id" \in DOMAIN call.arg["subtasks"][i]
               /\ call.arg["subtasks"][i]["id"] = call.subtask_id}

\* C15: complete_subtask sets completed = true on the first subtask whose id
\* equals subtask_id and changes no other subtask and nothing else; when the
\* task has no subtasks field or no subtask has the id, the task comes back
\* unchanged; no error is raised in any case.
C15_FirstMatchCompleted ==
    Called("complete_subtask") =>
        /\ call.ret.t = "dict"
        /\ call.ret = PyDict(task)
        /\ Matches = {} => call.ret.v = call.arg
        /\ Matches # {} =>
               LET first == CHOOSE i \in Matches : \A j \in Matches : i <= j
                   old == call.arg["subtasks"]
                   new == call.ret.v["subtasks"]
               IN  /\ DOMAIN call.ret.v = DOMAIN call.arg
                   /\ \A x \in DOMAIN call.arg \ {"subtasks"} : call.ret.v[x] = call.arg[x]
                   /\ Len(new) = Len(old)
                   /\ new[first] = Put(old[first], "completed", TRUE)
                   /\ \A i \in DOMAIN old : i # first => new[i] = old[i]

C15_Witness ==
    /\ Called("complete_subtask")
    /\ call.subtask_id = 2
    /\ Len(SubtasksOf(call.arg)) = 2
    /\ call.arg["subtasks"][1] = [id |-> 2, title |-> "b", completed |-> FALSE]
    /\ call.arg["subtasks"][2] = [id |-> 2, title |-> "b", completed |-> FALSE]
    /\ task["subtasks"][1]["completed"] = TRUE
    /\ task["subtasks"][2]["completed"] = FALSE

\* complete_subtask was asked for an id no subtask has, or on a task without
\* subtasks, and gave the task back as it was
C15_NoMatchWitness ==
    /\ Called("complete_subtask")
    /\ "subtasks" \notin DOMAIN call.arg
    /\ call.subtask_id = 1
    /\ task = call.arg

-----------------------------------------------------------------------------
(* SpecRecurrence: set_task_recurrence called again and again on one task *)

\* The four patterns, and texts that are none of them
PatternInputs == valid_patterns \cup {"hourly", "Daily", ""}

\* Tasks without a recurrence and tasks that already have one
RecurrenceStarts ==
    BaseTasks \cup {Put(b, "due_date", LateTask["due_date"]) : b \in BaseTasks}
              \cup {LateTask, Put(BusyTask, "recurrence", "weekly")}

InitRecurrence ==
    /\ task \in RecurrenceStarts
    /\ call = NoCall
    /\ coll = <<>>
    /\ tasks = <<>>
    /\ ever = {}
    /\ last = Idle
    /\ pair = NoPair
    /\ document = Missing
    /\ session = NoSessions

CallSetTaskRecurrence ==
    \E recurrence_pattern \in PatternInputs :
        /\ task' = set_task_recurrence(task, recurrence_pattern)
        /\ call' = [fn |-> "set_task_recurrence", arg |-> task,
                    recurrence_pattern |-> recurrence_pattern,
                    ret |-> PyDict(set_task_recurrence(task, recurrence_pattern))]
        /\ UNCHANGED <<coll, tasks, ever, last, document, session, pair>>

NextRecurrence == CallSetTaskRecurrence

SpecRecurrence == InitRecurrence /\ [][NextRecurrence]_vars

\* C16: set_task_recurrence sets the task's recurrence to the pattern when
\* the pattern is daily, weekly, monthly or yearly and changes nothing else;
\* for any other pattern the task comes back unchanged, a recurrence set
\* before keeping its value and an absent one staying absent; no error is
\* raised in either case.
C16_OnlyValidPatternsStored ==
    Called("set_task_recurrence") =>
        /\ call.ret.t = "dict"
        /\ call.ret = PyDict(task)
        /\ call.recurrence_pattern \in {"daily", "weekly", "monthly", "yearly"} =>
               /\ DOMAIN call.ret.v = DOMAIN call.arg \cup {"recurrence"}
               /\ call.ret.v["recurrence"] = call.recurrence_pattern
               /\ \A x \in DOMAIN call.arg \ {"recurrence"} : call.ret.v[x] = call.arg[x]
        /\ call.recurrence_pattern \notin {"daily", "weekly", "monthly", "yearly"} =>
               call.ret.v = call.arg

C16_Witness ==
    /\ Called("set_task_recurrence")
    /\ call.recurrence_pattern = "Daily"
    /\ "recurrence" \in DOMAIN call.arg
    /\ call.arg["recurrence"] = "weekly"
    /\ task["recurrence"] = "weekly"

-----------------------------------------------------------------------------
(* SpecQuery: the queries, called on collections of stored tasks *)

MaxQueryLen == 3

\* Tasks for the field filters: each field present with several values, in
\* another case, or absent
FilterTasks ==
    {[id |-> 1, title |-> <<"a">>, priority |-> "High", category |-> "Work", completed |-> FALSE],
     [id |-> 2, title |-> <<"a">>, priority |-> "Low", category |-> "Work", completed |-> TRUE],
     [id |-> 3, title |-> <<"a">>, priority |-> "High", category |-> "Personal", completed |-> TRUE],
     [id |-> 4, title |-> <<"a">>, category |-> "Work", completed |-> FALSE],
     [id |-> 5, title |-> <<"a">>, priority |-> "Medium"],
     [id |-> 6, title |-> <<"a">>, priority |-> "high", category |-> "work", completed |-> FALSE]}

Priorities == {"High", "Medium", "Low", "Urgent"}

Categories == {"Work", "Personal", "School"}

\* Tasks for get_overdue_tasks, around the reference date 2025-04-25: due the
\* day before, that day, the month after on an earlier day, the year before
\* and unpadded, not at all, on no date; completed, pending, without the flag
OverdueTasks ==
    {[id |-> 1, title |-> <<"a">>, completed |-> FALSE, due_date |-> <<"2", "0", "2", "5", "-", "0", "4", "-", "2", "4">>],
     [id |-> 2, title |-> <<"a">>, completed |-> FALSE, due_date |-> <<"2", "0", "2", "5", "-", "0", "4", "-", "2", "5">>],
     [id |-> 3, title |-> <<"a">>, completed |-> TRUE, due_date |-> <<"2", "0", "2", "5", "-", "0", "4", "-", "2", "4">>],
     [id |-> 4, title |-> <<"a">>, completed |-> FALSE],
     [id |-> 5, title |-> <<"a">>, completed |-> FALSE, due_date |-> <<"0", "4", "/", "2", "4", "/", "2", "0", "2", "5">>],
     [id |-> 6, title |-> <<"a">>, due_date |-> <<"2", "0", "2", "5", "-", "0", "5", "-", "0", "1">>],
     [id |-> 7, title |-> <<"a">>, due_date |-> <<"2", "0", "2", "4", "-", "4", "-", "3">>]}

Todays == {[year |-> 2025, month |-> 4, day |-> 25], [year |-> 2024, month |-> 12, day |-> 31]}

\* Tasks for search_tasks: either text in either case, empty or absent
SearchTasks ==
    {[id |-> 1, title |-> <<"A", "b">>, description |-> <<>>],
     [id |-> 2, title |-> <<"b", "a">>, description |-> <<"A", "B">>],
     [id |-> 3, description |-> <<"B", " ", "a">>],
     [id |-> 4, title |-> <<"b", "1">>],
     [id |-> 5, title |-> <<>>, description |-> <<>>],
     [id |-> 6]}

Queries == {<<>>, <<"a">>, <<"A", "B">>, <<"b", "a">>, <<"B", " ">>, <<"1", "b">>}

\* Tasks for get_tasks_by_tag: no tags field, no tag, the tag alone, the tag
\* behind another, a tag that only contains it
TagTasks ==
    {[id |-> 1, title |-> <<"a">>],
     [id |-> 2, title |-> <<"a">>, tags |-> <<>>],
     [id |-> 3, title |-> <<"a">>, tags |-> <<"home">>],
     [id |-> 4, title |-> <<"a">>, tags |-> <<"work", "home">>],
     [id |-> 5, title |-> <<"a">>, tags |-> <<"homework">>]}

QueryTags == {"home", "work", "urgent"}

InitQuery ==
    /\ coll \in SeqsUpTo(FilterTasks, MaxQueryLen) \cup SeqsUpTo(OverdueTasks, MaxQueryLen)
                \cup SeqsUpTo(SearchTasks, MaxQueryLen) \cup SeqsUpTo(TagTasks, MaxQueryLen)
    /\ call = NoCall
    /\ task = PlainTask
    /\ tasks = <<>>
    /\ ever = {}
    /\ last = Idle
    /\ pair = NoPair
    /\ document = Missing
    /\ session = NoSessions

Returned(fn, value, ret) ==
    /\ call' = [fn |-> fn, arg |-> coll, value |-> value, ret |-> ret]
    /\ UNCHANGED <<coll, task, tasks, ever, last, document, session, pair>>

CallFilterByPriority ==
    \E priority \in {PyStr(p) : p \in Priorities} \cup {PyNone} :
        Returned("filter_tasks_by_priority", priority,
                 PyList(filter_tasks_by_priority(coll, priority)))

CallFilterByCategory ==
    \E category \in {PyStr(c) : c \in Categories} \cup {PyNone} :
        Returned("filter_tasks_by_category", category,
                 PyList(filter_tasks_by_category(coll, category)))

CallFilterByCompletion ==
    \E completed \in {PyBool(b) : b \in BOOLEAN} \cup {PyNone} :
        Returned("filter_tasks_by_completion", completed,
                 PyList(filter_tasks_by_completion(coll, completed)))

CallSearchTasks ==
    \E query \in Queries :
        Returned("search_tasks", query, PyList(search_tasks(coll, query)))

CallGetOverdueTasks ==
    \E today \in Todays :
        Returned("get_overdue_tasks", today, get_overdue_tasks(coll, today))

CallGetTasksByTag ==
    \E tag \in QueryTags :
        Returned("get_tasks_by_tag", tag, PyList(get_tasks_by_tag(coll, tag)))

NextQuery ==
    \/ CallFilterByPriority
    \/ CallFilterByCategory
    \/ CallFilterByCompletion
    \/ CallSearchTasks
    \/ CallGetOverdueTasks
    \/ CallGetTasksByTag

SpecQuery == InitQuery /\ [][NextQuery]_vars

\* ret holds exactly the tasks of T that satisfy P, each as often as T holds
\* it, in the order of T
ExactlyInOrder(ret, T, P(_)) ==
    LET picked == {i \in DOMAIN T : P(T[i])}
    IN  /\ Len(ret) = Cardinality(picked)
        /\ \A i \in picked : ret[Cardinality({j \in picked : j <= i})] = T[i]

\* The task has the field, and its value is v
HasValue(t, field, v) == field \in DOMAIN t /\ v.t # "None" /\ t[field] = v.v

IdsOf(ts) == [i \in DOMAIN ts |-> ts[i]["id"]]

\* The field each filter looks at
FilterField ==
    [filter_tasks_by_priority |-> "priority",
     filter_tasks_by_category |-> "category",
     filter_tasks_by_completion |-> "completed"]

\* C17 as stated: for every collection and every value, each of
\* filter_tasks_by_priority, filter_tasks_by_category and
\* filter_tasks_by_completion returns exactly the tasks whose priority,
\* category or completed field equals the value, in the order of the
\* collection.
C17_FiltersExactInOrder ==
    call.fn \in DOMAIN FilterField =>
        /\ call.ret.t = "list"
        /\ ExactlyInOrder(call.ret.v, call.arg,
                          LAMBDA t : HasValue(t, FilterField[call.fn], call.value))

\* C17 amended: ... for every value other than None; for None each filter
\* returns exactly the tasks that do not have the field, in the order of the
\* collection.
C17_FiltersExactOrUnsetForNone ==
    call.fn \in DOMAIN FilterField =>
        /\ call.ret.t = "list"
        /\ call.value # PyNone =>
               ExactlyInOrder(call.ret.v, call.arg,
                              LAMBDA t : HasValue(t, FilterField[call.fn], call.value))
        /\ call.value = PyNone =>
               ExactlyInOrder(call.ret.v, call.arg,
                              LAMBDA t : FilterField[call.fn] \notin DOMAIN t)

C17_Witness ==
    /\ Called("filter_tasks_by_priority")
    /\ call.value = PyStr("High")
    /\ IdsOf(call.arg) = <<3, 4, 1>>
    /\ call.ret.t = "list"
    /\ IdsOf(call.ret.v) = <<3, 1>>

\* C25 as stated: whatever value the caller passes, no filter returns a task
\* that does not have the field it looks at.
C25_UnsetFieldNeverReturned ==
    call.fn \in DOMAIN FilterField =>
        \A i \in DOMAIN call.ret.v : FilterField[call.fn] \in DOMAIN call.ret.v[i]

\* C25 amended: a task that does not have the field is returned exactly when
\* the value passed is None.
C25_UnsetFieldReturnedOnlyForNone ==
    call.fn \in DOMAIN FilterField =>
        \A i \in DOMAIN call.arg :
            FilterField[call.fn] \notin DOMAIN call.arg[i] =>
                ((\E k \in DOMAIN call.ret.v : call.ret.v[k] = call.arg[i])
                     <=> call.value = PyNone)

C25_Witness ==
    /\ Called("filter_tasks_by_completion")
    /\ call.value = PyBool(FALSE)
    /\ IdsOf(call.arg) = <<5, 1, 2>>
    /\ "completed" \notin DOMAIN call.arg[1]
    /\ call.ret.t = "list"
    /\ IdsOf(call.ret.v) = <<1>>

\* C18: get_overdue_tasks returns, in the order of the collection, exactly the
\* tasks that are not completed, whose due_date is present and parses as
\* %Y-%m-%d, and whose due date lies strictly before today; a task due today,
\* a completed task due in the past and a task with no or a malformed
\* due_date are left out, and no error is raised.
C18_OverdueExactInOrder ==
    Called("get_overdue_tasks") =>
        /\ call.ret.t = "list"
        /\ ExactlyInOrder(call.ret.v, call.arg,
                          LAMBDA t : /\ ~Get(t, "completed", FALSE)
                                     /\ Parseable(t)
                                     /\ ymd2ord(DueOf(t)) < ymd2ord(call.value))

C18_Witness ==
    /\ Called("get_overdue_tasks")
    /\ call.value = [year |-> 2025, month |-> 4, day |-> 25]
    /\ IdsOf(call.arg) = <<2, 5, 1>>
    /\ call.ret.t = "list"
    /\ IdsOf(call.ret.v) = <<1>>

\* A completed task due in the past and a task due next month were passed
\* with one due last year, and only that one came back
C18_CompletedWitness ==
    /\ Called("get_overdue_tasks")
    /\ call.value = [year |-> 2025, month |-> 4, day |-> 25]
    /\ IdsOf(call.arg) = <<3, 7, 6>>
    /\ call.ret.t = "list"
    /\ IdsOf(call.ret.v) = <<7>>

\* Two characters that are the same letter in either case, or the same character
SameLetter(a, b) ==
    \/ a = b
    \/ {a, b} = {"a", "A"}
    \/ {a, b} = {"b", "B"}

ContainsIgnoringCase(s, q) ==
    \E offset \in 0..(Len(s) - Len(q)) :
        \A k \in DOMAIN q : SameLetter(q[k], s[offset + k])

\* C19: search_tasks returns, in the order of the collection, exactly the
\* tasks whose title or description contains the query as a substring, case
\* ignored on both sides; an absent title or description counts as the empty
\* text and raises nothing.
C19_SearchExactInOrder ==
    Called("search_tasks") =>
        /\ call.ret.t = "list"
        /\ ExactlyInOrder(call.ret.v, call.arg,
                          LAMBDA t : \/ ContainsIgnoringCase(Get(t, "title", <<>>), call.value)
                                     \/ ContainsIgnoringCase(Get(t, "description", <<>>), call.value))

C19_Witness ==
    /\ Called("search_tasks")
    /\ call.value = <<"A", "B">>
    /\ IdsOf(call.arg) = <<6, 2, 1>>
    /\ call.ret.t = "list"
    /\ IdsOf(call.ret.v) = <<2, 1>>

\* C20: get_tasks_by_tag returns, in the order of the collection, exactly the
\* tasks that have a tags field with the given tag as one of its elements; a
\* task without tags field never comes back.
C20_ByTagExactInOrder ==
    Called("get_tasks_by_tag") =>
        /\ call.ret.t = "list"
        /\ ExactlyInOrder(call.ret.v, call.arg,
                          LAMBDA t : /\ "tags" \in DOMAIN t
                                     /\ \E i \in DOMAIN t["tags"] : t["tags"][i] = call.value)
        /\ \A i \in DOMAIN call.ret.v : "tags" \in DOMAIN call.ret.v[i]

C20_Witness ==
    /\ Called("get_tasks_by_tag")
    /\ call.value = "home"
    /\ IdsOf(call.arg) = <<5, 4, 1>>
    /\ "tags" \notin DOMAIN call.arg[3]
    /\ call.arg[2]["tags"] = <<"work", "home">>
    /\ call.ret.t = "list"
    /\ IdsOf(call.ret.v) = <<4>>

-----------------------------------------------------------------------------
(* SpecFrame: the four functions that change a task, called in any order on  *)
(* one task                                                                  *)

\* A task with every optional field, one with some, one with none
FrameTasks ==
    {Put(Put(LateTask, "tags", <<"work">>), "subtasks",
         << [id |-> 1, title |-> "a", completed |-> FALSE] >>),
     BusyTask, PlainTask}

InitFrame ==
    /\ task \in FrameTasks
    /\ call = NoCall
    /\ coll = <<>>
    /\ tasks = <<>>
    /\ ever = {}
    /\ last = Idle
    /\ pair = NoPair
    /\ document = Missing
    /\ session = NoSessions

\* The function returned, and the caller's dict is the one it returned
Mutated(fn, ret) ==
    /\ task' = ret
    /\ call' = [fn |-> fn, arg |-> task, ret |-> PyDict(ret)]
    /\ UNCHANGED <<coll, tasks, ever, last, document, session, pair>>

TagTask ==
    \E tags \in {<<>>, <<"home">>, <<"urgent", "home">>} :
        Mutated("add_tags_to_task", add_tags_to_task(task, tags))

GiveSubtask ==
    \E subtask_data \in {[title |-> "step"], [title |-> "step", completed |-> TRUE]} :
        /\ Len(Get(task, "subtasks", <<>>)) < MaxSubtasks
        /\ Mutated("add_subtask", add_subtask(task, subtask_data))

FinishSubtask ==
    \E subtask_id \in SubtaskIds :
        Mutated("complete_subtask", complete_subtask(task, subtask_id))

SetRecurrence ==
    \E recurrence_pattern \in {"daily", "hourly"} :
        Mutated("set_task_recurrence", set_task_recurrence(task, recurrence_pattern))

NextFrame == TagTask \/ GiveSubtask \/ FinishSubtask \/ SetRecurrence

SpecFrame == InitFrame /\ [][NextFrame]_vars

\* The field each function owns
OwnedField ==
    [add_tags_to_task |-> "tags", add_subtask |-> "subtasks",
     complete_subtask |-> "subtasks", set_task_recurrence |-> "recurrence"]

\* C24: add_tags_to_task changes only tags, add_subtask and complete_subtask
\* only subtasks, set_task_recurrence only recurrence: every other field the
\* task had is still there after the call, with the same value, and no field
\* other than the owned one is new.
C24_OnlyOwnFieldChanges ==
    call.fn \in DOMAIN OwnedField =>
        /\ call.ret = PyDict(task)
        /\ \A k \in DOMAIN call.arg \ {OwnedField[call.fn]} :
               k \in DOMAIN task /\ task[k] = call.arg[k]
        /\ DOMAIN task \subseteq DOMAIN call.arg \cup {OwnedField[call.fn]}

C24_Witness ==
    /\ Called("complete_subtask")
    /\ {"tags", "subtasks", "recurrence", "due_date"} \subseteq DOMAIN call.arg
    /\ call.arg["subtasks"][1]["completed"] = FALSE
    /\ task["subtasks"][1]["completed"] = TRUE
    /\ task["tags"] = <<"work", "urgent", "home">>
    /\ task["recurrence"] = "daily"
    /\ task["completed"] = FALSE

-----------------------------------------------------------------------------
(* SpecPair: a task, the next occurrence generate_next_occurrence makes from *)
(* it, and calls on either of the two.  task.copy() copies the dict, not the *)
(* lists in it: a list the task had when it was copied is one object held by *)
(* both dicts, and what is appended to it or set in its elements shows in    *)
(* both.                                                                     *)

PairStarts ==
    {LateTask,
     Put(LateTask, "tags", <<"work">>),
     Put(LateTask, "subtasks", << [id |-> 1, title |-> "a", completed |-> TRUE] >>),
     Put(Put(LateTask, "tags", <<"work">>), "subtasks",
         << [id |-> 1, title |-> "a", completed |-> TRUE],
            [id |-> 2, title |-> "b", completed |-> FALSE] >>)}

InitPair ==
    /\ task \in PairStarts
    /\ pair = NoPair
    /\ call = NoCall
    /\ coll = <<>>
    /\ tasks = <<>>
    /\ ever = {}
    /\ last = Idle
    /\ document = Missing
    /\ session = NoSessions

Sides == {"original", "occurrence"}

Other(side) == IF side = "original" THEN "occurrence" ELSE "original"

\* next_task = task.copy() and the assignments that follow it
MakeNextOccurrence ==
    LET r == generate_next_occurrence(task)
    IN  /\ pair = NoPair
        /\ r.ret.t = "dict"
        /\ pair' = [original |-> r.task, occurrence |-> r.ret.v,
                    shared |-> DOMAIN task \cap {"tags", "subtasks"}]
        /\ call' = [fn |-> "generate_next_occurrence", arg |-> task, ret |-> r.ret]
        /\ UNCHANGED <<task, coll, tasks, ever, last, document, session>>

\* A function changed the dict on one side in place: the lists that dict
\* shares with the other are changed there too
ChangedInPlace(fn, side, changed) ==
    /\ pair' = [pair EXCEPT
                   ![side] = changed,
                   ![Other(side)] = [k \in DOMAIN pair[Other(side)] |->
                                        IF k \in pair.shared THEN changed[k]
                                        ELSE pair[Other(side)][k]]]
    /\ call' = [fn |-> fn, side |-> side, ret |-> PyDict(changed)]
    /\ UNCHANGED <<task, coll, tasks, ever, last, document, session>>

TagOneOfPair ==
    \E side \in Sides :
        /\ pair # NoPair
        /\ ChangedInPlace("add_tags_to_task", side, add_tags_to_task(pair[side], <<"home">>))

GiveSubtaskToOneOfPair ==
    \E side \in Sides :
        /\ pair # NoPair
        /\ Len(Get(pair[side], "subtasks", <<>>)) < MaxSubtasks
        /\ ChangedInPlace("add_subtask", side, add_subtask(pair[side], [title |-> "step"]))

FinishSubtaskOfOneOfPair ==
    \E side \in Sides, subtask_id \in 1..2 :
        /\ pair # NoPair
        /\ ChangedInPlace("complete_subtask", side, complete_subtask(pair[side], subtask_id))

NextPair ==
    \/ MakeNextOccurrence
    \/ TagOneOfPair
    \/ GiveSubtaskToOneOfPair
    \/ FinishSubtaskOfOneOfPair

SpecPair == InitPair /\ [][NextPair]_vars

\* C28: after generate_next_occurrence the task and its next occurrence are
\* independent: add_tags_to_task, add_subtask or complete_subtask applied to
\* one of them leaves the tags and the subtasks of the other as they were.
C28_OtherSideUntouched ==
    [][call'.fn \in {"add_tags_to_task", "add_subtask", "complete_subtask"} =>
          /\ pair # NoPair
          /\ DOMAIN pair'[Other(call'.side)] = DOMAIN pair[Other(call'.side)]
          /\ \A k \in DOMAIN pair[Other(call'.side)] \cap {"tags", "subtasks"} :
                 pair'[Other(call'.side)][k] = pair[Other(call'.side)][k]]_vars

-----------------------------------------------------------------------------
(* app.py, main(): the handlers that change the collection.  Each run of     *)
(* main() loads the collection, a handler mutates it and saves it, and       *)
(* st.rerun() ends the run, so a handler acts on the first task whose id is  *)
(* the id of the task its button was drawn for.                              *)

Ids(ts) == {ts[i]["id"] : i \in DOMAIN ts}

\* `for t in tasks: if t["id"] == task["id"]:`, left by st.rerun() at the first hit
first_with_id(ts, id) ==
    CHOOSE i \in DOMAIN ts :
        /\ ts[i]["id"] = id
        /\ \A j \in DOMAIN ts : ts[j]["id"] = id => i <= j

\* The "Add Task" form, submitted with a title
add_task(ts, form) ==
    LET new_task == [id |-> generate_unique_id(ts),
                     title |-> form.title,
                     description |-> form.description,
                     priority |-> form.priority,
                     category |-> form.category,
                     due_date |-> form.due_date,
                     completed |-> FALSE,
                     created_at |-> form.now]
        tagged == IF form.tags_list # <<>>
                  THEN add_tags_to_task(new_task, form.tags_list)
                  ELSE new_task
        recurring == IF form.enable_recurrence
                     THEN set_task_recurrence(tagged, form.recurrence_pattern)
                     ELSE tagged
    IN  Append(ts, recurring)

\* Mutant: the next occurrence is made on every toggle of a recurring task
toggle_complete_on_every_toggle(ts, id) ==
    LET i == first_with_id(ts, id)
        toggled == Put(ts[i], "completed", ~Get(ts[i], "completed", FALSE))
    IN  IF "recurrence" \in DOMAIN toggled
        THEN LET r == generate_next_occurrence(toggled)
             IN  IF r.ret.t = "dict"
                 THEN Append([ts EXCEPT ![i] = r.task], r.ret.v)
                 ELSE [ts EXCEPT ![i] = r.task]
        ELSE [ts EXCEPT ![i] = toggled]

\* The "Complete" / "Undo" button: the collection that is saved.  An
\* exception out of generate_next_occurrence ends the run before save_tasks.
toggle_complete(ts, id) ==
    LET i == first_with_id(ts, id)
        was_completed == Get(ts[i], "completed", FALSE)
        toggled == Put(ts[i], "completed", ~was_completed)
    IN  IF ~was_completed /\ "recurrence" \in DOMAIN toggled
        THEN LET r == generate_next_occurrence(toggled)
             IN  IF r.ret.t = "raise" THEN ts
                 ELSE IF r.ret.t = "dict"
                 THEN Append([ts EXCEPT ![i] = r.task], r.ret.v)
                 ELSE [ts EXCEPT ![i] = r.task]
        ELSE [ts EXCEPT ![i] = toggled]

\* The "Delete" button
delete_task(ts, id) == SelectSeq(ts, LAMBDA t : t["id"] # id)

\* The "Save Tag" button
save_tag(ts, id, new_tag) ==
    [ts EXCEPT ![first_with_id(ts, id)] = add_tags_to_task(@, <<new_tag>>)]

\* The "Complete" button of a subtask
complete_subtask_of(ts, id, subtask_id) ==
    [ts EXCEPT ![first_with_id(ts, id)] = complete_subtask(@, subtask_id)]

\* The subtask form, submitted with a title
add_subtask_to(ts, id, subtask_title) ==
    [ts EXCEPT ![first_with_id(ts, id)] = add_subtask(@, [title |-> subtask_title])]

-----------------------------------------------------------------------------
(* Spec: the application, from an empty collection *)

MaxTasks == 3
MaxId == 3
MaxExtras == 1

FebruaryLeapDay == <<"2", "0", "2", "4", "-", "0", "2", "-", "2", "9">>

\* What the user can enter in the "Add Task" form
Forms ==
    {[title |-> "Task", description |-> "", priority |-> "Medium",
      category |-> "Work", due_date |-> FebruaryLeapDay,
      now |-> "2024-02-01 09:00:00", tags_list |-> tl,
      enable_recurrence |-> rp # "", recurrence_pattern |-> rp] :
        tl \in {<<>>, <<"home">>}, rp \in {"", "daily", "yearly"}}

NewTags == {"home"}

SubtaskTitles == {"step"}

\* The tags and subtasks held by the whole collection
RECURSIVE Extras(_)
Extras(ts) ==
    IF ts = <<>> THEN 0
    ELSE Len(Get(Head(ts), "tags", <<>>)) + Len(Get(Head(ts), "subtasks", <<>>))
         + Extras(Tail(ts))

Init ==
    /\ tasks = <<>>
    /\ ever = {}
    /\ last = Idle
    /\ pair = NoPair
    /\ document = Missing
    /\ session = NoSessions
    /\ task = PlainTask
    /\ coll = <<>>
    /\ call = NoCall

Saved(ts, op, id) ==
    /\ tasks' = ts
    /\ ever' = ever \cup Ids(ts)
    /\ last' = [op |-> op, id |-> id]
    /\ UNCHANGED <<task, coll, call, document, session, pair>>

AddTask ==
    \E form \in Forms :
        /\ Len(tasks) < MaxTasks
        /\ generate_unique_id(tasks) <= MaxId
        /\ Extras(tasks) + Len(form.tags_list) <= MaxExtras
        /\ Saved(add_task(tasks, form), "add", generate_unique_id(tasks))

ToggleComplete ==
    \E shown \in DOMAIN tasks :
        \E saved \in {toggle_complete(tasks, tasks[shown]["id"])} :
            /\ Len(saved) <= MaxTasks
            /\ Ids(saved) \subseteq 1..MaxId
            /\ Saved(saved, "toggle", tasks[shown]["id"])

DeleteTask ==
    \E shown \in DOMAIN tasks :
        Saved(delete_task(tasks, tasks[shown]["id"]), "delete", tasks[shown]["id"])

SaveTag ==
    \E shown \in DOMAIN tasks, new_tag \in NewTags :
        /\ Extras(tasks) < MaxExtras
        /\ Saved(save_tag(tasks, tasks[shown]["id"], new_tag), "tag", tasks[shown]["id"])

CompleteSubtask ==
    \E shown \in DOMAIN tasks :
        /\ "subtasks" \in DOMAIN tasks[shown]
        /\ \E k \in DOMAIN tasks[shown]["subtasks"] :
               /\ ~Get(tasks[shown]["subtasks"][k], "completed", FALSE)
               /\ Saved(complete_subtask_of(tasks, tasks[shown]["id"],
                                            tasks[shown]["subtasks"][k]["id"]),
                        "subtask_done", tasks[shown]["id"])

AddSubtask ==
    \E shown \in DOMAIN tasks, subtask_title \in SubtaskTitles :
        /\ Extras(tasks) < MaxExtras
        /\ Saved(add_subtask_to(tasks, tasks[shown]["id"], subtask_title),
                 "subtask", tasks[shown]["id"])

Next ==
    \/ AddTask
    \/ ToggleComplete
    \/ DeleteTask
    \/ SaveTag
    \/ CompleteSubtask
    \/ AddSubtask

Spec == Init /\ [][Next]_vars

\* C1: from an empty collection, after any sequence of the caller's
\* operations (add a task with id = generate_unique_id(collection), delete,
\* toggle completion with the next occurrence appended, add tags, add and
\* complete subtasks, set recurrence), no two tasks have the same id.
C1_UniqueIds ==
    \A i, j \in DOMAIN tasks : i # j => tasks[i]["id"] # tasks[j]["id"]

\* C3: ids are never reused: the id given to a newly added task is the id of
\* no task that was in the collection before, deleted tasks included.
C3_IdsNeverReused ==
    [][last'.op = "add" => last'.id \notin ever]_vars

-----------------------------------------------------------------------------
(* SpecToggle: the completion flow, on collections the application can hold *)

ToggleTasks ==
    {[id |-> 1, title |-> "Task", description |-> "", priority |-> "Medium",
      category |-> "Work", due_date |-> FebruaryLeapDay, completed |-> c,
      created_at |-> "2024-02-01 09:00:00"] : c \in BOOLEAN}

WithSubtask(t) ==
    Put(t, "subtasks", << [id |-> 1, title |-> "step", completed |-> TRUE] >>)

ToggleVariants ==
    LET recurring == ToggleTasks
                     \cup {Put(t, "recurrence", r) : t \in ToggleTasks,
                                                     r \in {"daily", "monthly", "yearly"}}
    IN  recurring \cup {WithSubtask(t) : t \in recurring}

ToggleColls ==
    {<<t>> : t \in ToggleVariants}
    \cup {<<t, Put(u, "id", i)>> : t \in ToggleVariants, u \in ToggleVariants, i \in 1..2}

InitToggle ==
    /\ tasks \in ToggleColls
    /\ ever = Ids(tasks)
    /\ last = Idle
    /\ pair = NoPair
    /\ document = Missing
    /\ session = NoSessions
    /\ task = PlainTask
    /\ coll = <<>>
    /\ call = NoCall

NextToggle == ToggleComplete

SpecToggle == InitToggle /\ [][NextToggle]_vars

\* The task the toggle that has just run acted on, before it ran
ToggledAt == first_with_id(tasks, last'.id)

WasCompleted == Get(tasks[ToggledAt], "completed", FALSE)

\* What every toggle does: the task stays where it is with completed
\* flipped, and the other tasks stay as they are
Flipped ==
    /\ Len(tasks') >= Len(tasks)
    /\ tasks'[ToggledAt]["id"] = tasks[ToggledAt]["id"]
    /\ tasks'[ToggledAt]["completed"] = ~WasCompleted
    /\ \A j \in DOMAIN tasks : j # ToggledAt => tasks'[j] = tasks[j]

\* One task was appended: a pending copy due at the next date
Spawned ==
    /\ Len(tasks') = Len(tasks) + 1
    /\ tasks'[Len(tasks')]["completed"] = FALSE
    /\ tasks'[Len(tasks')]["title"] = tasks[ToggledAt]["title"]
    /\ PyStr(tasks'[Len(tasks')]["due_date"]) = get_next_occurrence_date(tasks[ToggledAt])

\* C4 as stated: a task is appended exactly when completion is toggled from
\* false to true on a task carrying a recurrence value: every such toggle
\* appends one pending task, the original stays with completed = true, and
\* no other toggle appends anything.
C4_SpawnOnEveryRecurringCompletion ==
    [][last'.op = "toggle" =>
          /\ Flipped
          /\ IF ~WasCompleted /\ "recurrence" \in DOMAIN tasks[ToggledAt]
             THEN Spawned
             ELSE Len(tasks') = Len(tasks)]_vars

\* C4 amended: a task is appended exactly when completion is toggled from
\* false to true on a task carrying a recurrence value for which
\* get_next_occurrence_date returns a date.
C4_SpawnWhenNextDateExists ==
    [][last'.op = "toggle" =>
          /\ Flipped
          /\ IF /\ ~WasCompleted
                /\ "recurrence" \in DOMAIN tasks[ToggledAt]
                /\ get_next_occurrence_date(tasks[ToggledAt]).t = "str"
             THEN Spawned
             ELSE Len(tasks') = Len(tasks)]_vars

C4_Witness ==
    /\ last.op = "toggle"
    /\ Len(tasks) = 3
    /\ tasks[first_with_id(tasks, last.id)]["completed"] = TRUE
    /\ Recurs(tasks[first_with_id(tasks, last.id)], {"monthly"})
    /\ tasks[3]["id"] = last.id + 1
    /\ tasks[3]["completed"] = FALSE
    /\ IsDate(PyStr(tasks[3]["due_date"]), [year |-> 2024, month |-> 3, day |-> 28])

\* C29: over any sequence of Complete and Undo on one recurring task at most
\* one next occurrence is spawned from it: a completion appends no task that
\* an earlier completion of the same task has already appended.
C29_NoSecondSpawn ==
    [][(last'.op = "toggle" /\ Len(tasks') = Len(tasks) + 1) =>
          \A j \in DOMAIN tasks :
              j # ToggledAt => tasks[j] # tasks'[Len(tasks')]]_vars

-----------------------------------------------------------------------------
(* SpecStore: two runs of main() on one file.  Each loads the list, takes    *)
(* the submitted "Add Task" form, saves and runs again; the steps of the two *)
(* interleave freely.                                                        *)

MaxStored == 3

Sessions == {"s1", "s2"}

\* The form each user submits: the title tells whose task it is
FormOf(s) ==
    [title |-> s, description |-> "", priority |-> "Medium", category |-> "Work",
     due_date |-> FebruaryLeapDay, now |-> "2024-02-01 09:00:00",
     tags_list |-> IF s = "s1" THEN <<"home">> ELSE <<>>,
     enable_recurrence |-> s = "s2", recurrence_pattern |-> "daily"]

\* What the file can hold before the first run: nothing, no text, no JSON,
\* JSON that is no list, a list of something else, a list of tasks
FirstDocuments ==
    {Missing, Undecodable, NotJson, Json(JNull), Json(JObject(<<>>)),
     Json(JObject([tasks |-> JArray(<<>>)])), Json(JNumber(42)),
     Json(JArray(<<JNumber(1)>>)), Json(JArray(<<>>)),
     Json(json_dump(add_task(<<>>, FormOf("s2"))))}

\* load_tasks gave a list of dicts: the run goes on.  On any other value
\* main() ends with an exception when it shows or numbers the tasks.
HoldsTasks(doc) ==
    /\ load_tasks(doc).t = "list"
    /\ doc.kind = "json" => \A i \in DOMAIN doc.value.items : doc.value.items[i].j = "object"

InitStore ==
    /\ document \in FirstDocuments
    /\ session = [s \in Sessions |-> [pc |-> "start", tasks |-> <<>>, missed |-> {}]]
    /\ call = NoCall
    /\ task = PlainTask
    /\ coll = <<>>
    /\ tasks = <<>>
    /\ ever = {}
    /\ last = Idle
    /\ pair = NoPair

\* main() starts: tasks = load_tasks()
LoadTasks(s) ==
    /\ session[s].pc \in {"start", "saved"}
    /\ session' = [session EXCEPT ![s] =
                      IF HoldsTasks(document)
                      THEN [pc |-> "loaded", tasks |-> load_tasks(document).v, missed |-> {}]
                      ELSE [pc |-> "failed", tasks |-> <<>>, missed |-> {}]]
    /\ call' = [fn |-> "load_tasks", by |-> s, arg |-> document, ret |-> load_tasks(document)]
    /\ UNCHANGED <<document, tasks, ever, last, task, coll, pair>>

\* The form is submitted: tasks.append(new_task), in memory
SubmitTask(s) ==
    /\ session[s].pc = "loaded"
    /\ generate_unique_id(session[s].tasks) <= MaxStored
    /\ session' = [session EXCEPT ![s].pc = "changed",
                                  ![s].tasks = add_task(@, FormOf(s))]
    /\ UNCHANGED <<document, call, tasks, ever, last, task, coll, pair>>

\* save_tasks(tasks); every other run that loaded before has missed the task
\* this one added
SaveTasks(s) ==
    /\ session[s].pc = "changed"
    /\ document' = save_tasks(session[s].tasks, document)
    /\ session' = [o \in Sessions |->
                      IF o = s THEN [session[s] EXCEPT !.pc = "saved"]
                      ELSE IF session[o].pc \in {"loaded", "changed"}
                      THEN [session[o] EXCEPT !.missed =
                               @ \cup {session[s].tasks[Len(session[s].tasks)]}]
                      ELSE session[o]]
    /\ call' = [fn |-> "save_tasks", by |-> s, arg |-> session[s].tasks, before |-> document]
    /\ UNCHANGED <<tasks, ever, last, task, coll, pair>>

NextStore == \E s \in Sessions : LoadTasks(s) \/ SubmitTask(s) \/ SaveTasks(s)

SpecStore == InitStore /\ [][NextStore]_vars

C21_MissingWitness ==
    /\ Called("load_tasks")
    /\ call.arg = Missing
    /\ call.ret = PyList(<<>>)

\* C22: load_tasks after save_tasks(T) returns a list equal to T, the same
\* tasks in the same order with the same field values, whatever the document
\* held before the save; nothing of what was saved earlier is left.
C22_LoadReturnsWhatWasSaved ==
    [][(Called("save_tasks") /\ call'.fn = "load_tasks") =>
          /\ call'.ret = PyList(call.arg)
          /\ call'.arg = document]_vars

C22_Witness ==
    /\ Called("load_tasks")
    /\ call.ret.t = "list"
    /\ Len(call.ret.v) = 2
    /\ call.ret.v[1]["title"] = "s2"
    /\ call.ret.v[1]["recurrence"] = "daily"
    /\ call.ret.v[2]["title"] = "s1"
    /\ call.ret.v[2]["id"] = 2
    /\ call.ret.v[2]["tags"] = <<"home">>
    /\ call.ret.v[2]["completed"] = FALSE
    /\ call.ret.v[2]["due_date"] = FebruaryLeapDay

\* C23: when two runs have both loaded before either saves, the document
\* after the second save is the second saver's list, and the task the first
\* saver added is not in it: the last full save wins.
C23_LastSaveWins ==
    [][\A s \in Sessions :
          (session[s].pc = "changed" /\ session'[s].pc = "saved" /\ session[s].missed # {}) =>
              /\ load_tasks(document') = PyList(session[s].tasks)
              /\ \A t \in session[s].missed :
                     \A i \in DOMAIN load_tasks(document').v : load_tasks(document').v[i] # t]_vars

C23_Witness ==
    /\ Called("save_tasks")
    /\ call.by = "s1"
    /\ session["s1"].pc = "saved"
    /\ session["s2"].pc = "saved"
    /\ Len(session["s1"].tasks) = 1
    /\ Len(session["s2"].tasks) = 1
    /\ session["s1"].missed = {session["s2"].tasks[1]}
    /\ call.before = Json(json_dump(session["s2"].tasks))
    /\ document = Json(json_dump(session["s1"].tasks))

\* C26: for every document content load_tasks returns a list of tasks: a
\* content that is not a JSON list of task objects, well-formed JSON that is
\* no list included, gives the empty list, never a value that is no list,
\* and no exception.
C26_AlwaysAListOfTasks ==
    Called("load_tasks") =>
        /\ call.ret.t = "list"
        /\ ~(/\ call.arg.kind = "json"
             /\ call.arg.value.j = "array"
             /\ \A i \in DOMAIN call.arg.value.items : call.arg.value.items[i].j = "object")
               => call.ret.v = <<>>

====
